---- MODULE Spec2Model ----
(***************************************************************************)
(* Model of Scripts/UsefulFunctions.py: the data-preparation routines for  *)
(* Southern Ocean gridded output (getACCESSdata_SO, corrlong,              *)
(* extract_bottom_layer, nn_dist) and the SDM ensemble builder (ds_sdm).   *)
(*                                                                         *)
(* Every routine is a synchronous function of its arguments, so each one   *)
(* gets a specification of its own: Init draws the arguments from bounded  *)
(* sets and one action per call applies the routine as the code computes   *)
(* it.  Objects the caller holds (xarray DataArrays are mutable) are state *)
(* variables, so that in-place assignments are visible.                    *)
(***************************************************************************)
EXTENDS Integers, Sequences, FiniteSets, TLC

VARIABLES
    pc,          \* which routine has run: "start", then the routine's label
    array,       \* corrlong: the DataArray object the caller passed in
    array0,      \* corrlong: value of that object just before the call
    ret,         \* corrlong: the DataArray returned
    calls,       \* corrlong: number of calls made so far
    da,          \* extract_bottom_layer: the DataArray object passed in
    da0,         \* extract_bottom_layer: its value just before the call
    bottom,      \* extract_bottom_layer: the DataArray returned
    args,        \* getACCESSdata_SO: var, minlat, maxlat, ice_data
    fetched,     \* getACCESSdata_SO: what the catalog holds for var
    area_t,      \* getACCESSdata_SO: the catalog's area_t reference field
    reconciled,  \* getACCESSdata_SO: vararray on reaching line 76
    vararray,    \* getACCESSdata_SO: the DataArray returned
    target_da,          \* nn_dist: the reference field passed in
    grid_coords_numpy,  \* nn_dist: the target coordinate pairs passed in
    kwargs,             \* nn_dist: the keyword arguments passed in
    ice_coords,         \* nn_dist: the edge curve of lines 146-147
    dist_km,            \* nn_dist: the DataArray returned
    disk,               \* nn_dist: directories and files on disk
    warnings,           \* nn_dist: warnings and messages emitted
    raised,             \* nn_dist: the exception that ended the call
    list_df,            \* ds_sdm: the list of prediction tables passed in
    grid_sample,        \* ds_sdm: the sample grid passed in
    ds                  \* ds_sdm: the Dataset returned, or the exception

vars == <<pc, array, array0, ret, calls, da, da0, bottom,
          args, fetched, area_t, reconciled, vararray,
          target_da, grid_coords_numpy, kwargs, ice_coords, dist_km,
          disk, warnings, raised, list_df, grid_sample, ds>>

corrlongVars == <<array, array0, ret, calls>>
bottomVars == <<da, da0, bottom>>
accessVars == <<args, fetched, area_t, reconciled, vararray>>
nnVars == <<target_da, grid_coords_numpy, kwargs, ice_coords, dist_km,
            disk, warnings, raised>>
sdmVars == <<list_df, grid_sample, ds>>

(***************************************************************************)
(* Generic helpers                                                         *)
(***************************************************************************)
Range(s) == {s[i] : i \in DOMAIN s}

SeqsUpTo(S, n) == UNION {[1..k -> S] : k \in 1..n}

\* No object: the value of a result variable before any call
None == [name |-> "none"]

\* the variables of a routine that a specification does not exercise
IdleCorrlong == array = None /\ array0 = None /\ ret = None /\ calls = 0
IdleBottom == da = None /\ da0 = None /\ bottom = None
IdleAccess ==
    /\ args = None /\ fetched = None /\ area_t = None
    /\ reconciled = None /\ vararray = None
IdleNN ==
    /\ target_da = None /\ grid_coords_numpy = None /\ kwargs = None
    /\ ice_coords = None /\ dist_km = None /\ disk = None
    /\ warnings = None /\ raised = None
IdleSdm == list_df = None /\ grid_sample = None /\ ds = None

(***************************************************************************)
(* corrlong (lines 85-103)                                                 *)
(***************************************************************************)
\* Longest x axis of a generated field
MaxX == 3

\* Coordinates are binary floating point numbers.  A number is held as a
\* count of sixteenths of a degree, and a float carries MantissaBits
\* significant bits (float64 carries 53): a sum or difference is rounded to
\* the nearest float, ties to even.
Deg == 4 * 4
MantissaBits == 8

RECURSIVE BitLen(_)
BitLen(n) == IF n = 0 THEN 0 ELSE 1 + BitLen(n \div 2)

RECURSIVE Pow2(_)
Pow2(e) == IF e = 0 THEN 1 ELSE 2 * Pow2(e - 1)

Abs(v) == IF v < 0 THEN -v ELSE v

\* the float nearest to the exact value v (round half to even)
Fl(v) ==
    LET a == Abs(v)
        e == BitLen(a) - MantissaBits
    IN  IF e <= 0 THEN v
        ELSE LET g == Pow2(e)
                 q == a \div g
                 r == a % g
                 up == 2 * r > g \/ (2 * r = g /\ q % 2 = 1)
                 n == (IF up THEN q + 1 ELSE q) * g
             IN  IF v < 0 THEN -n ELSE n

\* Longitudes a field may carry, all of them floats: the ACCESS-OM2 grid
\* spans [-280, 80); -280 and 180 fall outside [-180, 180), 0.5 is a
\* cell-centre longitude off the whole degrees
XVals == {-280 * Deg, -180 * Deg, 0, Deg \div 2, 80 * Deg, 180 * Deg}

VarNames == {"u", "v", "temp"}

\* line 94-97: the longitude axis addressed for a field of this name
LongName(name) == IF name \in {"u", "v"} THEN "xu_ocean" ELSE "xt_ocean"

\* A field as the catalog hands it out: velocity fields sit on the u grid.
\* data[i] identifies the column stored at position i of the x axis.
Field(name, xs) ==
    [name |-> name,
     coords |-> (LongName(name) :> xs),
     data |-> [i \in 1..Len(xs) |-> i]]

Fields == {Field(n, xs) : n \in VarNames, xs \in SeqsUpTo(XVals, MaxX)}

\* s % 360 on floats: the remainder of the truncated division (fmod, which
\* is exact), moved up by 360 when it is negative (an addition, rounded)
Mod360(s) ==
    LET r == IF s < 0 THEN -((-s) % (360 * Deg)) ELSE s % (360 * Deg)
    IN  IF r < 0 THEN Fl(r + 360 * Deg) ELSE r

\* A plausible slip: the final shift back by 180 forgotten
WrapNoShift(x) == Mod360(Fl(x + 180 * Deg))

\* line 100: ((x + 180) % 360) - 180
Wrap(x) == Fl(Mod360(Fl(x + 180 * Deg)) - 180 * Deg)

\* positions idx (sorted by key) with position i inserted after every
\* position whose key is <= keys[i]
RECURSIVE Insert(_, _, _)
Insert(idx, i, keys) ==
    IF idx = <<>> THEN <<i>>
    ELSE IF keys[Head(idx)] <= keys[i]
         THEN <<Head(idx)>> \o Insert(Tail(idx), i, keys)
         ELSE <<i>> \o idx

\* the stable ascending argsort np.lexsort computes for sortby
RECURSIVE Argsort(_, _)
Argsort(keys, n) ==
    IF n = 0 THEN <<>> ELSE Insert(Argsort(keys, n - 1), n, keys)

\* line 100: array[long_name] = ...  assigns the coordinate on the object
\* that was passed in
AssignLon(a) ==
    LET ln == LongName(a.name)
    IN  [a EXCEPT !.coords = (ln :> [i \in DOMAIN a.coords[ln] |-> Wrap(a.coords[ln][i])])]

\* line 101: array.sortby(array[long_name]) builds a new object, columns
\* reordered together with their coordinate
SortBy(a) ==
    LET ln == LongName(a.name)
        xs == a.coords[ln]
        p  == Argsort(xs, Len(xs))
    IN  [a EXCEPT !.coords = (ln :> [i \in DOMAIN xs |-> xs[p[i]]]),
                  !.data = [i \in DOMAIN xs |-> a.data[p[i]]]]

\* the call corrlong(obj): obj is modified by line 100, the sorted copy is
\* returned by line 103
CallCorrlong(obj) ==
    /\ array0' = obj
    /\ array' = AssignLon(obj)
    /\ ret' = SortBy(AssignLon(obj))
    /\ calls' = calls + 1
    /\ pc' = "corrlong"
    /\ UNCHANGED <<bottomVars, accessVars, nnVars, sdmVars>>

CorrlongFirst ==
    /\ calls = 0
    /\ CallCorrlong(array)

\* the caller feeds the returned field to corrlong once more
CorrlongAgain ==
    /\ calls = 1
    /\ CallCorrlong(ret)

InitCorrlong ==
    /\ pc = "start"
    /\ array \in Fields
    /\ array0 = array
    /\ ret = None
    /\ calls = 0
    /\ IdleBottom /\ IdleAccess /\ IdleNN /\ IdleSdm

NextCorrlong == CorrlongFirst \/ CorrlongAgain

SpecCorrlong == InitCorrlong /\ [][NextCorrlong]_vars

XOf(a) == a.coords[LongName(a.name)]

\* x already in [-180, 180) and sorted ascending
Normalized(a) ==
    /\ \A i \in DOMAIN XOf(a) : XOf(a)[i] >= -180 * Deg /\ XOf(a)[i] < 180 * Deg
    /\ \A i, j \in DOMAIN XOf(a) : i < j => XOf(a)[i] <= XOf(a)[j]

ExactShift(x) == Fl(x + 180 * Deg) = x + 180 * Deg

C10_NoMutation == calls >= 1 => array = array0

(***************************************************************************)
(* extract_bottom_layer (lines 108-128)                                    *)
(***************************************************************************)
\* Number of depth levels (st_ocean), shallowest first
MaxDepth == 3

Depths == 1..MaxDepth

\* time steps of the field (isel(time = 0) is step 1)
TimeSteps == {1, 2}

\* horizontal cells as (yt_ocean, xt_ocean) index pairs
HCells == {<<1, 1>>, <<1, 2>>}

\* a floating point cell is missing (np.nan) or holds a number
NaN == [nan |-> TRUE]
Num(v) == [nan |-> FALSE, v |-> v]
IsNaN(a) == a.nan

\* the number stored at (t, k, c) when that cell is not missing: distinct
\* for every cell and never zero
Stored(t, k, c) == 100 * t + 10 * k + c[2]

\* the field whose non-missing cells are exactly those of valid
FieldOf(valid) ==
    [t \in TimeSteps |-> [k \in Depths |-> [c \in HCells |->
        IF <<t, k, c>> \in valid THEN Num(Stored(t, k, c)) ELSE NaN]]]

\* xr.where(cond, 1, np.nan)
OneWhere(cond) == IF cond THEN Num(1) ELSE NaN

\* x.where(cond): x kept where cond holds, missing elsewhere
Where(x, cond) == IF cond THEN x ELSE NaN

\* elementwise product and comparison of floats: NaN propagates through *,
\* and NaN == anything is False
Mul(a, b) == IF IsNaN(a) \/ IsNaN(b) THEN NaN ELSE Num(a.v * b.v)
Eq(a, b) == ~IsNaN(a) /\ ~IsNaN(b) /\ a.v = b.v

\* A plausible slip: a cumulative sum that does not skip missing values, so
\* that everything below the first gap is missing
RECURSIVE CumsumNoSkip(_, _)
CumsumNoSkip(col, k) ==
    IF k = 0 THEN 0
    ELSE IF IsNaN(col[k]) \/ CumsumNoSkip(col, k - 1) = -1 THEN -1
         ELSE CumsumNoSkip(col, k - 1) + col[k].v

\* cumsum('st_ocean') down to level k of one column; xarray skips missing
\* values (skipna), i.e. they count as zero
RECURSIVE Cumsum(_, _)
Cumsum(col, k) ==
    IF k = 0 THEN 0
    ELSE Cumsum(col, k - 1) + (IF IsNaN(col[k]) THEN 0 ELSE col[k].v)

\* max('st_ocean') of one column, skipping missing values; missing when the
\* whole column is missing
RECURSIVE MaxSkipna(_, _)
MaxSkipna(col, k) ==
    IF k = 0 THEN NaN
    ELSE LET m == MaxSkipna(col, k - 1)
         IN  IF IsNaN(col[k]) THEN m
             ELSE IF IsNaN(m) \/ col[k].v > m.v THEN col[k] ELSE m

\* sum('st_ocean') of one column, skipping missing values: the sum of
\* nothing is 0.0
RECURSIVE SumSkipna(_, _)
SumSkipna(col, k) ==
    IF k = 0 THEN 0
    ELSE SumSkipna(col, k - 1) + (IF IsNaN(col[k]) THEN 0 ELSE col[k].v)

\* line 118: 1 where the first time step holds data
Mask118(d) ==
    [k \in Depths |-> [c \in HCells |-> OneWhere(~IsNaN(d[1][k][c]))]]

\* line 120: running count of data cells down each column, kept only where
\* the first time step holds data
Mask120(d) ==
    LET m == Mask118(d)
    IN  [k \in Depths |-> [c \in HCells |->
            Where(Num(Cumsum([j \in Depths |-> m[j][c]], k)), ~IsNaN(d[1][k][c]))]]

\* line 122: 1 where the running count equals the column's maximum
Mask122(d) ==
    LET m == Mask120(d)
    IN  [k \in Depths |-> [c \in HCells |->
            OneWhere(Eq(m[k][c], MaxSkipna([j \in Depths |-> m[j][c]], MaxDepth)))]]

\* lines 124-126: (mask_2d * da).sum('st_ocean'), as (time, y, x)
BottomOf(d) ==
    LET m == Mask122(d)
    IN  [t \in TimeSteps |-> [c \in HCells |->
            Num(SumSkipna([k \in Depths |-> Mul(m[k][c], d[t][k][c])], MaxDepth))]]

\* the call extract_bottom_layer(da): the name da is rebound inside the
\* function, the caller's object is left as it was
ExtractBottomLayer ==
    /\ pc = "start"
    /\ da0' = da
    /\ da' = da
    /\ bottom' = BottomOf(da)
    /\ pc' = "extract_bottom_layer"
    /\ UNCHANGED <<corrlongVars, accessVars, nnVars, sdmVars>>

InitBottom ==
    /\ pc = "start"
    /\ da \in {FieldOf(valid) : valid \in SUBSET (TimeSteps \X Depths \X HCells)}
    /\ da0 = da
    /\ bottom = None
    /\ IdleCorrlong /\ IdleAccess /\ IdleNN /\ IdleSdm

NextBottom == ExtractBottomLayer

SpecBottom == InitBottom /\ [][NextBottom]_vars

\* the missing cells are the same at every time step
SameMissing(d) ==
    \A t \in TimeSteps, k \in Depths, c \in HCells :
        IsNaN(d[t][k][c]) <=> IsNaN(d[1][k][c])

HasData(d, t, c) == \E k \in Depths : ~IsNaN(d[t][k][c])

\* the deepest level of column c holding data at time t
Deepest(d, t, c) ==
    CHOOSE k \in Depths :
        /\ ~IsNaN(d[t][k][c])
        /\ \A j \in Depths : j > k => IsNaN(d[t][j][c])

\* C1: when the missing cells are the same at every time step, every column
\* with at least one level of data gets, at every time, the value of its
\* deepest level of data (levels of data may be separated by gaps).
C1_BottomValue ==
    (pc = "extract_bottom_layer" /\ SameMissing(da0)) =>
        \A t \in TimeSteps, c \in HCells :
            HasData(da0, t, c) =>
                bottom[t][c] = da0[t][Deepest(da0, t, c)][c]

\* a column with a gap above its deepest level of data has been reduced
C1_Witness ==
    /\ pc = "extract_bottom_layer"
    /\ SameMissing(da0)
    /\ \E c \in HCells :
        /\ ~IsNaN(da0[1][1][c]) /\ IsNaN(da0[1][2][c]) /\ ~IsNaN(da0[1][3][c])
        /\ bottom[2][c] = Num(Stored(2, 3, c))

\* C2 (as claimed): a column missing at every level and every time step is
\* missing in the output at every time step.
C2_AllMissingIsMissing ==
    pc = "extract_bottom_layer" =>
        \A c \in HCells :
            (\A t \in TimeSteps : ~HasData(da0, t, c)) =>
                \A t \in TimeSteps : IsNaN(bottom[t][c])


(***************************************************************************)
(* getACCESSdata_SO (lines 31-81)                                          *)
(***************************************************************************)
\* Longest y axis and longest time axis of a catalog field
MaxY == 3
MaxT == 2

\* latitudes (degrees) of catalog rows, and the bounds a caller may ask for
\* (-90 and -45 are the defaults of line 31)
YVals == {-90, -80, -60, -45, -40}
MinLats == {-90, -80}
MaxLats == {-60, -45}

\* timestamps in hours since an epoch: daily stamps at 00:00
TVals == {0, 24, 48}

\* catalog variables: u lives on the u grid, temp on the t grid, aice is a
\* sea ice variable
CatalogVars == {"u", "temp", "aice"}
IceVars == {"aice"}

\* coordinates other than the three axes that an ice field may arrive with
IceExtras == {"TLON", "TLAT"}

\* strictly ascending sequences over S of length 1..n: a catalog axis
AscSeqs(S, n) ==
    {s \in SeqsUpTo(S, n) : \A i, j \in DOMAIN s : i < j => s[i] < s[j]}

\* longitude axes of the catalog grid
XAxes == {<<-280>>, <<-280, -279>>}

YDim(name) == IF name \in {"u", "v"} THEN "yu_ocean" ELSE "yt_ocean"

\* cc.querying.getvar for an ocean variable (line 75): decoded coordinates.
\* rows[i] identifies the data row stored at position i of the y axis.
OceanField(name, ts, ys, xs) ==
    [name |-> name,
     coords |-> ("time" :> ts @@ YDim(name) :> ys @@ LongName(name) :> xs),
     rows |-> [i \in DOMAIN ys |-> i]]

\* cc.querying.getvar(..., decode_coords = False) for an ice variable
\* (line 60): dimensions time, nj, ni without coordinate values, and
\* possibly further coordinates
IceField(name, ts, ny, nx, extras) ==
    [name |-> name,
     coords |-> ("time" :> ts @@ [c \in extras |-> <<>>]),
     rows |-> [i \in 1..ny |-> i],
     sizes |-> [nj |-> ny, ni |-> nx]]

\* cc.querying.getvar(exp, 'area_t', ses, n = 1) (line 62)
AreaT(ys, xs) ==
    [name |-> "area_t", coords |-> ("yt_ocean" :> ys @@ "xt_ocean" :> xs)]

\* A plausible slip: the correction applied with the wrong sign
ShiftTimeFwd(t) == t + 12

\* line 64: timestamp - dt.timedelta(hours = 12)
ShiftTime(t) == t - 12

\* lines 64-72: the ice branch
Reconcile(v, a) ==
    LET ts == [i \in DOMAIN v.coords["time"] |-> ShiftTime(v.coords["time"][i])]
        \* lines 64, 66, 67: time, ni and nj (re)assigned
        c1 == [n \in (DOMAIN v.coords) \cup {"ni", "nj"} |->
                 IF n = "time" THEN ts
                 ELSE IF n = "ni" THEN a.coords["xt_ocean"]
                 ELSE IF n = "nj" THEN a.coords["yt_ocean"]
                 ELSE v.coords[n]]
        \* line 69: rename ni -> xt_ocean, nj -> yt_ocean
        names2 == ((DOMAIN c1) \ {"ni", "nj"}) \cup {"xt_ocean", "yt_ocean"}
        c2 == [n \in names2 |->
                 IF n = "xt_ocean" THEN c1["ni"]
                 ELSE IF n = "yt_ocean" THEN c1["nj"]
                 ELSE c1[n]]
        \* lines 71-72: drop every other coordinate when there are more than 3
        keep == IF Cardinality(DOMAIN c2) > 3
                THEN (DOMAIN c2) \cap {"time", "xt_ocean", "yt_ocean"}
                ELSE DOMAIN c2
    IN  [name |-> v.name, coords |-> [n \in keep |-> c2[n]], rows |-> v.rows]

\* A plausible slip: the upper bound treated as exclusive
RECURSIVE KeptHalfOpen(_, _, _, _)
KeptHalfOpen(ys, lo, hi, n) ==
    IF n = 0 THEN <<>>
    ELSE KeptHalfOpen(ys, lo, hi, n - 1)
           \o (IF lo <= ys[n] /\ ys[n] < hi THEN <<n>> ELSE <<>>)

\* positions 1..n of an ascending axis that .sel(axis = slice(lo, hi))
\* keeps: label slices include both end points
RECURSIVE Kept(_, _, _, _)
Kept(ys, lo, hi, n) ==
    IF n = 0 THEN <<>>
    ELSE Kept(ys, lo, hi, n - 1)
           \o (IF lo <= ys[n] /\ ys[n] <= hi THEN <<n>> ELSE <<>>)

\* lines 77-80: vararray.sel(<y axis> = slice(minlat, maxlat))
Sel(v, minlat, maxlat) ==
    LET yd == YDim(v.name)
        ys == v.coords[yd]
        k  == Kept(ys, minlat, maxlat, Len(ys))
    IN  [v EXCEPT !.coords = [n \in DOMAIN v.coords |->
                                IF n = yd THEN [i \in DOMAIN k |-> ys[k[i]]]
                                ELSE v.coords[n]],
                  !.rows = [i \in DOMAIN k |-> v.rows[k[i]]]]

\* the call getACCESSdata_SO(var, ..., minlat, maxlat, ice_data)
GetACCESSdataSO ==
    /\ pc = "start"
    /\ LET v == IF args.ice_data = TRUE
                THEN Reconcile(fetched, area_t)
                ELSE fetched
       IN  /\ reconciled' = v
           /\ vararray' = Sel(v, args.minlat, args.maxlat)
    /\ pc' = "getACCESSdata_SO"
    /\ UNCHANGED <<args, fetched, area_t, corrlongVars, bottomVars, nnVars,
                   sdmVars>>

\* ice_data is True exactly for sea ice variables (docstring, line 51); the
\* area_t reference has the shape of the ice grid
InitAccess ==
    /\ pc = "start"
    /\ \E var \in CatalogVars, lo \in MinLats, hi \in MaxLats,
          ts \in SeqsUpTo(TVals, MaxT), ys \in AscSeqs(YVals, MaxY),
          xs \in XAxes, ex \in SUBSET IceExtras :
          /\ args = [var |-> var, minlat |-> lo, maxlat |-> hi,
                     ice_data |-> (var \in IceVars)]
          /\ IF var \in IceVars
             THEN /\ fetched = IceField(var, ts, Len(ys), Len(xs), ex)
                  /\ area_t = AreaT(ys, xs)
             ELSE /\ ex = {}
                  /\ fetched = OceanField(var, ts, ys, xs)
                  /\ area_t = None
    /\ reconciled = None /\ vararray = None
    /\ IdleCorrlong /\ IdleBottom /\ IdleNN /\ IdleSdm

NextAccess == GetACCESSdataSO

SpecAccess == InitAccess /\ [][NextAccess]_vars

Returned == pc = "getACCESSdata_SO"

\* C3: for ice data, on reaching the latitude subsetting, x and y equal the
\* area_t vectors element by element, every timestamp is the fetched one
\* minus 12 hours (same count, same order), and the coordinates are exactly
\* time, xt_ocean and yt_ocean.
C3_Reconciled ==
    (Returned /\ args.ice_data) =>
        /\ DOMAIN reconciled.coords = {"time", "xt_ocean", "yt_ocean"}
        /\ reconciled.coords["xt_ocean"] = area_t.coords["xt_ocean"]
        /\ reconciled.coords["yt_ocean"] = area_t.coords["yt_ocean"]
        /\ Len(reconciled.coords["time"]) = Len(fetched.coords["time"])
        /\ \A i \in DOMAIN fetched.coords["time"] :
              reconciled.coords["time"][i] = fetched.coords["time"][i] - 12

\* an ice field with two timestamps and extra coordinates was reconciled
C3_Witness ==
    /\ Returned /\ args.ice_data
    /\ Len(fetched.coords["time"]) = 2
    /\ DOMAIN fetched.coords = {"time", "TLON", "TLAT"}
    /\ Len(area_t.coords["yt_ocean"]) = 2

\* y axis of the field before and after subsetting
YIn == reconciled.coords[YDim(reconciled.name)]
YOut == vararray.coords[YDim(vararray.name)]

\* nothing outside the band is kept, rows keep their order, and the axis
\* subset follows the field's name
C9_Common ==
    /\ YDim(vararray.name) \in DOMAIN vararray.coords
    /\ YDim(vararray.name) = (IF args.var \in {"u", "v"} THEN "yu_ocean" ELSE "yt_ocean")
    /\ Len(vararray.rows) = Len(YOut)
    /\ \A i \in DOMAIN YOut :
          /\ YOut[i] = YIn[vararray.rows[i]]
          /\ args.minlat <= YOut[i] /\ YOut[i] <= args.maxlat
    /\ \A i, j \in DOMAIN YOut : i < j => vararray.rows[i] < vararray.rows[j]
    /\ \A n \in DOMAIN YIn :
          (args.minlat < YIn[n] /\ YIn[n] < args.maxlat) => n \in Range(vararray.rows)

\* C9 (as claimed): the band is half-open, a y coordinate equal to one of
\* the two bounds is excluded.
C9_HalfOpenBand ==
    Returned =>
        /\ C9_Common
        /\ \A i \in DOMAIN YOut : YOut[i] # args.minlat /\ YOut[i] # args.maxlat

\* C9 (amended): the band is closed, a y coordinate equal to either bound is
\* retained like those strictly inside.
C9_ClosedBand ==
    Returned =>
        /\ C9_Common
        /\ \A n \in DOMAIN YIn :
              (args.minlat <= YIn[n] /\ YIn[n] <= args.maxlat) => n \in Range(vararray.rows)

\* rows on both bounds, inside and outside the band were subset
C9_Witness ==
    /\ Returned
    /\ YIn = <<-90, -45, -40>>
    /\ args.minlat = -90 /\ args.maxlat = -45
    /\ YOut = <<-90, -45>>

(***************************************************************************)
(* nn_dist (lines 133-179)                                                 *)
(*                                                                         *)
(* Real numbers are fixed point integers with four decimals: the number r  *)
(* is the integer r * Scale.                                               *)
(***************************************************************************)
Scale == 100 * 100

\* pi in fixed point (np.deg2rad multiplies by pi / 180)
Pi == 31416

\* line 154
earth_radius_km == 6371

\* Number of rows (yt_ocean) of the reference grid
GridNY == 2

\* the grid: yt_ocean = -70, -60, ... and xt_ocean = 0, 10 (degrees)
YIdx == 1..GridNY
yt_ocean == [i \in YIdx |-> -80 + 10 * i]
xt_ocean == <<0, 10>>
XIdx == DOMAIN xt_ocean

\* values of a reference field: missing, or an ice concentration of 0 or 1
EdgeVals == {NaN, Num(0), Num(1)}

\* np.deg2rad of a fixed point number
Deg2Rad(n) == ((n \div 100) * Pi) \div (180 * (Scale \div 100))

\* sine by its Taylor polynomial, for -pi/2 <= x <= pi/2
SinTaylor(x) ==
    LET x2 == (x * x) \div Scale
        t3 == (x * x2) \div (6 * Scale)
        t5 == (t3 * x2) \div (20 * Scale)
        t7 == (t5 * x2) \div (42 * Scale)
        t9 == (t7 * x2) \div (72 * Scale)
    IN  x - t3 + t5 - t7 + t9

\* np.sin of any fixed point number: reduced modulo 2 pi first
Sin(x) ==
    LET r == ((x + Pi) % (2 * Pi)) - Pi
    IN  IF r > Pi \div 2 THEN SinTaylor(Pi - r)
        ELSE IF r < -(Pi \div 2) THEN SinTaylor(-Pi - r)
        ELSE SinTaylor(r)

Cos(x) == Sin(x + Pi \div 2)

\* largest r in lo..hi with r * r <= n  (square root, by bisection)
RECURSIVE SqrtBetween(_, _, _)
SqrtBetween(n, lo, hi) ==
    IF lo >= hi THEN lo
    ELSE LET mid == (lo + hi + 1) \div 2
         IN  IF mid * mid <= n THEN SqrtBetween(n, mid, hi)
             ELSE SqrtBetween(n, lo, mid - 1)

\* np.sqrt of a fixed point number in [0, 1]
Sqrt(h) == SqrtBetween(h * Scale, 0, Scale)

\* largest angle in lo..hi whose sine is <= y  (arcsine, by bisection)
RECURSIVE AsinBetween(_, _, _)
AsinBetween(y, lo, hi) ==
    IF lo >= hi THEN lo
    ELSE LET mid == (lo + hi + 1) \div 2
         IN  IF SinTaylor(mid) <= y THEN AsinBetween(y, mid, hi)
             ELSE AsinBetween(y, lo, mid - 1)

\* np.arcsin of a fixed point number in [0, 1]
Asin(y) == IF y <= 0 THEN 0 ELSE AsinBetween(y, 0, Pi \div 2)

Min2(a, b) == IF a <= b THEN a ELSE b

\* the haversine metric of the BallTree on two (lat, lon) pairs, both taken
\* to be in radians:
\* 2 asin(sqrt(sin^2(dlat / 2) + cos(lat1) cos(lat2) sin^2(dlon / 2)))
Haversine(p, q) ==
    LET s0 == Sin((p[1] - q[1]) \div 2)
        s1 == Sin((p[2] - q[2]) \div 2)
        cc == (Cos(p[1]) * Cos(q[1])) \div Scale
        h  == (s0 * s0) \div Scale + (cc * ((s1 * s1) \div Scale)) \div Scale
    IN  2 * Asin(Sqrt(Min2(IF h < 0 THEN 0 ELSE h, Scale)))

\* A plausible slip: the last maximum of the column instead of the first
ArgmaxLast(col) ==
    CHOOSE i \in DOMAIN col :
        /\ ~IsNaN(col[i])
        /\ \A j \in DOMAIN col : ~IsNaN(col[j]) =>
              (col[j].v < col[i].v \/ (col[j].v = col[i].v /\ j <= i))

\* argmax(dim = 'yt_ocean') of one column that holds data: missing values
\* are skipped, the first maximum wins
Argmax(col) ==
    CHOOSE i \in DOMAIN col :
        /\ ~IsNaN(col[i])
        /\ \A j \in DOMAIN col : ~IsNaN(col[j]) =>
              (col[j].v < col[i].v \/ (col[j].v = col[i].v /\ j >= i))

Column(t, j) == [i \in YIdx |-> t.vals[i][j]]

\* argmax over missing values raises "All-NaN slice encountered" as soon
\* as one column holds no data
AllNaNSlice(t) == \E j \in XIdx : \A i \in YIdx : IsNaN(t.vals[i][j])

\* lines 146-147: one (y, x) pair, in degrees, per x column
IceCoords(t) ==
    [j \in XIdx |-> <<t.yt_ocean[Argmax(Column(t, j))], t.xt_ocean[j]>>]

\* a pair of whole degrees as fixed point numbers
Fixed(p) == <<p[1] * Scale, p[2] * Scale>>

\* line 150: the tree holds np.deg2rad(ice_coords)
TreePoints(ic) ==
    [j \in DOMAIN ic |-> <<Deg2Rad(Fixed(ic[j])[1]), Deg2Rad(Fixed(ic[j])[2])>>]

\* distance from q to the nearest of the points pts[1..n]
RECURSIVE Nearest(_, _, _)
Nearest(q, pts, n) ==
    IF n = 1 THEN Haversine(q, pts[1])
    ELSE Min2(Nearest(q, pts, n - 1), Haversine(q, pts[n]))

\* line 152: ball_tree.query(grid_coords_numpy): the query points are used
\* as they were passed in
Query(pts, coords) ==
    [n \in DOMAIN coords |-> Nearest(coords[n], pts, Len(pts))]

\* lines 155-162: kilometres, reshaped to the grid (row after row)
DistKm(t, dist_rad) ==
    [name |-> "dist_km",
     dims |-> <<"time", "yt_ocean", "xt_ocean">>,
     time |-> <<t.time>>,
     yt_ocean |-> t.yt_ocean,
     xt_ocean |-> t.xt_ocean,
     attrs |-> [units |-> "km", long_name |-> "distance to nearest neighbour"],
     data |-> [i \in YIdx |-> [j \in XIdx |->
                 dist_rad[(i - 1) * Len(t.xt_ocean) + j] * earth_radius_km]]]

\* str(month).zfill(2), as its two digits
Zfill2(m) == <<m \div 10, m % 10>>

\* lines 170-174: os.path.join(folder_out, f'{file_base}_{year}-{month}.nc')
FileOut(kw, time) ==
    <<kw["folder_out"], "/", kw["file_base"], "_", time.year, "-">>
        \o Zfill2(time.month) \o <<".nc">>

\* lines 165-177: the directory is made whenever folder_out is given; the
\* file is written when file_base is given too; the else branch of line 177
\* is a string expression, it emits nothing
DiskAfter(kw, time, d) ==
    IF "folder_out" \in DOMAIN kw
    THEN [dirs |-> d.dirs \cup {kw["folder_out"]},
          files |-> IF "file_base" \in DOMAIN kw
                    THEN d.files \cup {FileOut(kw, time)}
                    ELSE d.files]
    ELSE d

\* the call nn_dist(target_da, grid_coords_numpy, **kwargs)
NnDist ==
    /\ pc = "start"
    /\ ~AllNaNSlice(target_da)
    /\ ice_coords' = IceCoords(target_da)
    /\ dist_km' = DistKm(target_da,
                         Query(TreePoints(IceCoords(target_da)), grid_coords_numpy))
    /\ disk' = DiskAfter(kwargs, target_da.time, disk)
    /\ warnings' = warnings
    /\ raised' = "none"
    /\ pc' = "nn_dist"
    /\ UNCHANGED <<target_da, grid_coords_numpy, kwargs,
                   corrlongVars, bottomVars, accessVars, sdmVars>>

\* the call ends at line 146 when a column holds no data
NnDistRaises ==
    /\ pc = "start"
    /\ AllNaNSlice(target_da)
    /\ raised' = "ValueError"
    /\ pc' = "nn_dist"
    /\ UNCHANGED <<target_da, grid_coords_numpy, kwargs, ice_coords, dist_km,
                   disk, warnings, corrlongVars, bottomVars, accessVars,
                   sdmVars>>

\* the coordinate pairs of the grid cells, row after row, as a caller builds
\* them: in degrees, or already converted to radians
GridCoords(units) ==
    [n \in 1..(GridNY * Len(xt_ocean)) |->
        LET i == ((n - 1) \div Len(xt_ocean)) + 1
            j == ((n - 1) % Len(xt_ocean)) + 1
            p == Fixed(<<yt_ocean[i], xt_ocean[j]>>)
        IN  IF units = "deg" THEN p ELSE <<Deg2Rad(p[1]), Deg2Rad(p[2])>>]

KwargsOf(keys) ==
    [k \in keys |-> IF k = "folder_out" THEN "out" ELSE "dist"]

InitNN ==
    /\ pc = "start"
    /\ \E v \in [YIdx -> [XIdx -> EdgeVals]], m \in {3, 11} :
          target_da = [vals |-> v, yt_ocean |-> yt_ocean, xt_ocean |-> xt_ocean,
                       time |-> [year |-> 2010, month |-> m]]
    /\ grid_coords_numpy \in {GridCoords(u) : u \in {"deg", "rad"}}
    /\ kwargs \in {KwargsOf(k) : k \in SUBSET {"folder_out", "file_base"}}
    /\ ice_coords = <<>>
    /\ dist_km = None
    /\ disk = [dirs |-> {}, files |-> {}]
    /\ warnings = <<>>
    /\ raised = "none"
    /\ IdleCorrlong /\ IdleBottom /\ IdleAccess /\ IdleSdm

NextNN == NnDist \/ NnDistRaises

SpecNN == InitNN /\ [][NextNN]_vars

NnCalled == pc = "nn_dist"

\* the y coordinate at which column j attains its maximum, the smallest
\* index winning a tie
EdgeY(j) ==
    LET col == Column(target_da, j)
        top == CHOOSE i \in YIdx :
                 /\ ~IsNaN(col[i])
                 /\ \A k \in YIdx : ~IsNaN(col[k]) => col[k].v <= col[i].v
                 /\ \A k \in YIdx : (k < i /\ ~IsNaN(col[k])) => col[k].v < col[i].v
    IN  target_da.yt_ocean[top]

ColumnHasData(j) == \E i \in YIdx : ~IsNaN(target_da.vals[i][j])

\* column j is represented by exactly one reference point, the right one
OnePoint(j) ==
    /\ Cardinality({n \in DOMAIN ice_coords : ice_coords[n][2] = target_da.xt_ocean[j]}) = 1
    /\ \A n \in DOMAIN ice_coords :
          ice_coords[n][2] = target_da.xt_ocean[j] => ice_coords[n][1] = EdgeY(j)

\* C4 (as claimed): every x column holding data yields exactly one
\* reference point, at the y of the column's (first) maximum.
C4_EdgePerColumn ==
    NnCalled => \A j \in XIdx : ColumnHasData(j) => OnePoint(j)

\* C4 (amended): when every x column holds data, each column yields exactly
\* one reference point, at the y of the column's (first) maximum; when some
\* column holds no data the call raises and no reference point is produced.
C4_EdgeWhenAllColumnsHaveData ==
    NnCalled =>
        IF \A j \in XIdx : ColumnHasData(j)
        THEN raised = "none" /\ Len(ice_coords) = Len(target_da.xt_ocean)
             /\ \A j \in XIdx : OnePoint(j)
        ELSE raised = "ValueError" /\ ice_coords = <<>>

\* a column with a tie for the maximum was reduced, next to a column with a
\* missing value
C4_Witness ==
    /\ NnCalled /\ raised = "none"
    /\ \E j \in XIdx :
          /\ target_da.vals[1][j] = Num(1) /\ target_da.vals[2][j] = Num(1)
          /\ ice_coords[j] = <<target_da.yt_ocean[1], target_da.xt_ocean[j]>>
    /\ \E j \in XIdx : IsNaN(target_da.vals[1][j])

\* great-circle angle between two (y, x) pairs given in degrees
GreatCircle(p, q) ==
    Haversine(<<Deg2Rad(p[1]), Deg2Rad(p[2])>>, <<Deg2Rad(q[1]), Deg2Rad(q[2])>>)

\* C5 (as claimed): the value of every target cell is 6371 times the
\* great-circle angle from the cell's (y, x) pair to the nearest reference
\* point; a cell whose pair is a reference point's pair gets 0.
C5_NearestGreatCircle ==
    (NnCalled /\ raised = "none") =>
        \A i \in YIdx, j \in XIdx :
            LET q == grid_coords_numpy[(i - 1) * Len(xt_ocean) + j]
            IN  /\ \E n \in DOMAIN ice_coords :
                      dist_km.data[i][j] = 6371 * GreatCircle(q, Fixed(ice_coords[n]))
                /\ \A n \in DOMAIN ice_coords :
                      dist_km.data[i][j] <= 6371 * GreatCircle(q, Fixed(ice_coords[n]))
                /\ (\E n \in DOMAIN ice_coords : q = Fixed(ice_coords[n]))
                      => dist_km.data[i][j] = 0

\* C6 (as claimed): with a directory but no filename stem a warning is
\* emitted, no file is written, no error is raised and the field is
\* returned; with neither nothing is written; with both exactly the one
\* dated file is written.
C6_SoftPersistenceSkip ==
    (NnCalled /\ raised = "none") =>
        /\ ("folder_out" \in DOMAIN kwargs /\ "file_base" \notin DOMAIN kwargs) =>
              /\ warnings # <<>>
              /\ disk.files = {}
              /\ dist_km.name = "dist_km"
        /\ "folder_out" \notin DOMAIN kwargs => disk.files = {}
        /\ ("folder_out" \in DOMAIN kwargs /\ "file_base" \in DOMAIN kwargs) =>
              disk.files = {<<"out", "/", "dist", "_", 2010, "-",
                              target_da.time.month \div 10,
                              target_da.time.month % 10, ".nc">>}

(***************************************************************************)
(* ds_sdm (lines 235-270)                                                  *)
(*                                                                         *)
(* A prediction or a mean is the fraction <<numerator, denominator>>.      *)
(***************************************************************************)
\* Number of SDM algorithms, one prediction table each
SdmModels == 2

ModelNames == <<"GAM", "GLM", "RF", "BRT">>

\* predictions a table may hold for the first month
PredVals == {0, 1, 3}

\* the months the tables cover, in the order of the rows
MonthLists == {<<1>>, <<2, 1>>}

\* calendar.month_name
MonthName(m) == <<"January", "February", "March">>[m]

\* sample grids of two cells: a row with x ascending or descending, and a
\* column
SampleGrids ==
    {[yt_ocean |-> <<-70>>, xt_ocean |-> <<0, 10>>],
     [yt_ocean |-> <<-70>>, xt_ocean |-> <<10, 0>>],
     [yt_ocean |-> <<-70, -60>>, xt_ocean |-> <<0>>]}

NCells(g) == Len(g.yt_ocean) * Len(g.xt_ocean)

\* the (y, x) coordinates of the n-th cell of the grid, row after row
CellAt(g, n) ==
    <<g.yt_ocean[((n - 1) \div Len(g.xt_ocean)) + 1],
      g.xt_ocean[((n - 1) % Len(g.xt_ocean)) + 1]>>

RECURSIVE Flatten(_)
Flatten(ss) == IF ss = <<>> THEN <<>> ELSE Head(ss) \o Flatten(Tail(ss))

\* the table of one model (what df_ready returns): for every month the
\* rows of the grid cells, listed in the order perm; base[n] is the
\* prediction at cell n in month 1, later months predict 10 more each
Table(model, g, months, perm, base, nrows) ==
    LET all == Flatten([k \in DOMAIN months |->
                 [n \in 1..NCells(g) |->
                    [yt_ocean |-> CellAt(g, perm[n])[1],
                     xt_ocean |-> CellAt(g, perm[n])[2],
                     pred |-> <<base[perm[n]] + 10 * (months[k] - 1), 1>>,
                     month |-> months[k],
                     model |-> model]]])
    IN  SubSeq(all, 1, nrows)

\* line 246: pd.concat(list_df)
Concat(tables) == Flatten(tables)

\* Series.unique(): the distinct values in order of first appearance
RECURSIVE Unique(_)
Unique(s) ==
    IF s = <<>> THEN <<>>
    ELSE LET u == Unique(SubSeq(s, 1, Len(s) - 1))
         IN  IF s[Len(s)] \in Range(u) THEN u ELSE Append(u, s[Len(s)])

\* line 253: df[df.month == m]
RowsOfMonth(df, m) == SelectSeq(df, LAMBDA r : r.month = m)

KeyLess(a, b) == a[1] < b[1] \/ (a[1] = b[1] /\ a[2] < b[2])

\* the distinct (yt_ocean, xt_ocean) keys of a set, ascending: the order in
\* which groupby lists its groups
RECURSIVE SortedKeys(_)
SortedKeys(K) ==
    IF K = {} THEN <<>>
    ELSE LET k == CHOOSE a \in K : \A b \in K \ {a} : KeyLess(a, b)
         IN  <<k>> \o SortedKeys(K \ {k})

RECURSIVE SumPreds(_)
SumPreds(rows) ==
    IF rows = <<>> THEN 0 ELSE Head(rows).pred[1] + SumPreds(Tail(rows))

\* A plausible slip: the group's sum in place of its mean
GroupSum(rows) == <<SumPreds(rows), 1>>

\* the mean of pred over the rows of one group
GroupMean(rows) == <<SumPreds(rows), Len(rows)>>

\* lines 254-255: groupby(['yt_ocean', 'xt_ocean']).mean().reset_index(),
\* labelled 'Ensemble'
Ensemble(mth, m) ==
    LET keys == SortedKeys({<<mth[i].yt_ocean, mth[i].xt_ocean>> : i \in DOMAIN mth})
    IN  [n \in DOMAIN keys |->
            [yt_ocean |-> keys[n][1],
             xt_ocean |-> keys[n][2],
             pred |-> GroupMean(SelectSeq(mth, LAMBDA r :
                         r.yt_ocean = keys[n][1] /\ r.xt_ocean = keys[n][2])),
             month |-> m,
             model |-> "Ensemble"]]

\* line 256: the month's rows followed by the ensemble rows
WithEnsemble(df, m) == RowsOfMonth(df, m) \o Ensemble(RowsOfMonth(df, m), m)

\* line 257
Mods(mth) == Unique([i \in DOMAIN mth |-> mth[i].model])

\* line 258: reshape((len(mods), *grid_sample.shape)) fails unless the row
\* count is the product of the shape
ReshapeFails(mth, g) == Len(mth) # Len(Mods(mth)) * NCells(g)

\* lines 258-262: the pred column cut into one layer per model, row after
\* row, and labelled with the sample grid's coordinates
MonthArray(mth, g) ==
    [model |-> Mods(mth),
     yt_ocean |-> g.yt_ocean,
     xt_ocean |-> g.xt_ocean,
     data |-> [k \in DOMAIN Mods(mth) |->
                 [i \in DOMAIN g.yt_ocean |-> [j \in DOMAIN g.xt_ocean |->
                    mth[(k - 1) * NCells(g) + (i - 1) * Len(g.xt_ocean) + j].pred]]]]

\* lines 246-270
DsSdm(tables, g) ==
    LET df == Concat(tables)
        months == Unique([i \in DOMAIN df |-> df[i].month])
    IN  IF \E k \in DOMAIN months : ReshapeFails(WithEnsemble(df, months[k]), g)
        THEN [raised |-> "ValueError"]
        ELSE [raised |-> "none",
              data_vars |-> [n \in {MonthName(months[k]) : k \in DOMAIN months} |->
                  MonthArray(WithEnsemble(df, CHOOSE m \in Range(months) : MonthName(m) = n), g)]]

\* the call ds_sdm(list_df, grid_sample)
DsSdmCall ==
    /\ pc = "start"
    /\ ds' = DsSdm(list_df, grid_sample)
    /\ pc' = "ds_sdm"
    /\ UNCHANGED <<list_df, grid_sample, corrlongVars, bottomVars, accessVars,
                   nnVars>>

Perms(n) == {f \in [1..n -> 1..n] : \A i, j \in 1..n : i # j => f[i] # f[j]}

\* every table covers the same months; the first table may lack its last
\* row (a cell without a prediction)
InitSdm ==
    /\ pc = "start"
    /\ grid_sample \in SampleGrids
    /\ \E months \in MonthLists, short \in BOOLEAN,
          perm \in [1..SdmModels -> Perms(NCells(grid_sample))],
          base \in [1..SdmModels -> [1..NCells(grid_sample) -> PredVals]] :
          list_df = [k \in 1..SdmModels |->
                       Table(ModelNames[k], grid_sample, months, perm[k], base[k],
                             Len(months) * NCells(grid_sample)
                               - (IF short /\ k = 1 THEN 1 ELSE 0))]
    /\ ds = None
    /\ IdleCorrlong /\ IdleBottom /\ IdleAccess /\ IdleNN

NextSdm == DsSdmCall

SpecSdm == InitSdm /\ [][NextSdm]_vars

SdmCalled == pc = "ds_sdm"

InputModels == {list_df[k][1].model : k \in DOMAIN list_df}
InputMonths == {list_df[k][n].month : k \in DOMAIN list_df, n \in DOMAIN list_df[1]}

\* the rows of model md for month m at (y, x)
RowsAt(md, m, y, x) ==
    {r \in UNION {Range(list_df[k]) : k \in DOMAIN list_df} :
        r.model = md /\ r.month = m /\ r.yt_ocean = y /\ r.xt_ocean = x}

\* every model supplies one row per grid cell per month
OneRowPerCell ==
    \A md \in InputModels, m \in InputMonths, n \in 1..NCells(grid_sample) :
        Cardinality(RowsAt(md, m, CellAt(grid_sample, n)[1], CellAt(grid_sample, n)[2])) = 1

PredAt(md, m, y, x) == (CHOOSE r \in RowsAt(md, m, y, x) : TRUE).pred[1]

RECURSIVE SumOver(_, _, _, _)
SumOver(M, m, y, x) ==
    IF M = {} THEN 0
    ELSE LET md == CHOOSE a \in M : TRUE
         IN  PredAt(md, m, y, x) + SumOver(M \ {md}, m, y, x)

LayerOf(arr, md) == CHOOSE k \in DOMAIN arr.model : arr.model[k] = md

\* the returned dataset holds, for every month and cell, each model's own
\* prediction and their mean, on a model axis of models + 1 entries
SdmOutputRight ==
    /\ ds.raised = "none"
    /\ DOMAIN ds.data_vars = {MonthName(m) : m \in InputMonths}
    /\ \A m \in InputMonths :
        LET arr == ds.data_vars[MonthName(m)]
        IN  /\ Len(arr.model) = Cardinality(InputModels) + 1
            /\ Range(arr.model) = InputModels \cup {"Ensemble"}
            /\ \A i \in DOMAIN grid_sample.yt_ocean, j \in DOMAIN grid_sample.xt_ocean :
                LET y == grid_sample.yt_ocean[i]
                    x == grid_sample.xt_ocean[j]
                IN  /\ arr.data[LayerOf(arr, "Ensemble")][i][j]
                          = <<SumOver(InputModels, m, y, x), Cardinality(InputModels)>>
                    /\ \A md \in InputModels :
                          arr.data[LayerOf(arr, md)][i][j] = <<PredAt(md, m, y, x), 1>>

\* C7 (as claimed): provided every model supplies one row per grid cell per
\* month, the Ensemble layer is the per-cell mean over the models, every
\* model's layer holds its own predictions at the labelled cell, and the
\* model axis has models + 1 entries.
C7_EnsembleMean == (SdmCalled /\ OneRowPerCell) => SdmOutputRight

\* each table lists every month's rows in the order of the sample grid,
\* row after row
RowsInGridOrder ==
    \A k \in DOMAIN list_df :
        /\ Len(list_df[k]) % NCells(grid_sample) = 0
        /\ \A n \in DOMAIN list_df[k] :
              <<list_df[k][n].yt_ocean, list_df[k][n].xt_ocean>>
                 = CellAt(grid_sample, ((n - 1) % NCells(grid_sample)) + 1)

\* the sample grid's coordinate vectors are ascending
GridAscending ==
    /\ \A i, j \in DOMAIN grid_sample.yt_ocean :
          i < j => grid_sample.yt_ocean[i] < grid_sample.yt_ocean[j]
    /\ \A i, j \in DOMAIN grid_sample.xt_ocean :
          i < j => grid_sample.xt_ocean[i] < grid_sample.xt_ocean[j]

\* C7 (amended): provided every model supplies one row per grid cell per
\* month, listed month by month in the row-major order of the sample grid,
\* and the sample grid's coordinates are ascending, the Ensemble layer is
\* the per-cell mean over the models, every model's layer holds its own
\* predictions at the labelled cell, and the model axis has models + 1
\* entries.
C7_EnsembleMeanOrdered ==
    (SdmCalled /\ OneRowPerCell /\ RowsInGridOrder /\ GridAscending)
        => SdmOutputRight

\* two months of two models with differing predictions were merged
C7_Witness ==
    /\ SdmCalled /\ OneRowPerCell /\ RowsInGridOrder /\ GridAscending
    /\ InputMonths = {1, 2}
    /\ ds.raised = "none"
    /\ grid_sample.xt_ocean = <<0, 10>>
    /\ ds.data_vars["February"].data[LayerOf(ds.data_vars["February"], "Ensemble")][1][2]
          = <<24, SdmModels>>

====
